---- MODULE Spec2Model ----
(***************************************************************************)
(* Model of the admissions-rank analytics of college-recommender           *)
(* (analysis.py and the get_school_analysis route of app.py).              *)
(*                                                                         *)
(* The analytics functions compute with Python floats (IEEE-754 binary64). *)
(* Their results are truncated by int() and compared against fixed         *)
(* thresholds, so the last bit of a float decides outputs.  The arithmetic *)
(* is therefore modelled bit-exactly: a float is a sign, a 53-bit          *)
(* significand held as a multi-limb natural, and a binary exponent; every  *)
(* operation computes the exact result and rounds it to nearest, ties to   *)
(* even, as the hardware does.                                             *)
(***************************************************************************)
EXTENDS Integers, Sequences, FiniteSets, TLC

(***************************************************************************)
(* Multi-limb naturals: little-endian sequences of limbs in 0..BASE-1,     *)
(* without leading zero limbs; <<>> is zero.                               *)
(***************************************************************************)
LIMB_BITS == 15

BASE == 2 ^ LIMB_BITS

MANT_BITS == 53

RECURSIVE BNorm(_)
BNorm(a) ==
  IF a = <<>> THEN a
  ELSE IF a[Len(a)] = 0 THEN BNorm(SubSeq(a, 1, Len(a) - 1)) ELSE a

Limb(a, i) == IF i <= Len(a) THEN a[i] ELSE 0

RECURSIVE BFromInt(_)
BFromInt(n) == IF n = 0 THEN <<>> ELSE <<n % BASE>> \o BFromInt(n \div BASE)

RECURSIVE BToIntR(_, _)
BToIntR(a, i) == IF i > Len(a) THEN 0 ELSE a[i] + BASE * BToIntR(a, i + 1)

BToInt(a) == BToIntR(a, 1)

RECURSIVE BAddR(_, _, _, _)
BAddR(a, b, i, c) ==
  IF i > Len(a) /\ i > Len(b)
  THEN (IF c = 0 THEN <<>> ELSE <<c>>)
  ELSE LET s == Limb(a, i) + Limb(b, i) + c
       IN  <<s % BASE>> \o BAddR(a, b, i + 1, s \div BASE)

BAdd(a, b) == BAddR(a, b, 1, 0)

RECURSIVE BSubR(_, _, _, _)
BSubR(a, b, i, w) ==
  IF i > Len(a) THEN <<>>
  ELSE LET d == a[i] - Limb(b, i) - w
       IN  IF d < 0 THEN <<d + BASE>> \o BSubR(a, b, i + 1, 1)
                    ELSE <<d>> \o BSubR(a, b, i + 1, 0)

\* a - b for a >= b
BSub(a, b) == BNorm(BSubR(a, b, 1, 0))

RECURSIVE BCmpR(_, _, _)
BCmpR(a, b, i) ==
  IF i = 0 THEN 0
  ELSE IF a[i] > b[i] THEN 1
  ELSE IF a[i] < b[i] THEN -1
  ELSE BCmpR(a, b, i - 1)

\* -1, 0 or 1 as a < b, a = b, a > b
BCmp(a, b) ==
  IF Len(a) > Len(b) THEN 1
  ELSE IF Len(a) < Len(b) THEN -1
  ELSE BCmpR(a, b, Len(a))

RECURSIVE BMulSmallR(_, _, _, _)
BMulSmallR(a, k, i, c) ==
  IF i > Len(a) THEN (IF c = 0 THEN <<>> ELSE <<c>>)
  ELSE LET p == a[i] * k + c
       IN  <<p % BASE>> \o BMulSmallR(a, k, i + 1, p \div BASE)

\* a * k for 0 <= k < BASE
BMulSmall(a, k) == IF k = 0 THEN <<>> ELSE BMulSmallR(a, k, 1, 0)

Zeros(n) == [i \in 1..n |-> 0]

RECURSIVE BMulR(_, _, _)
BMulR(a, b, j) ==
  IF j > Len(b) THEN <<>>
  ELSE LET row == BMulSmall(a, b[j])
           part == IF row = <<>> THEN <<>> ELSE Zeros(j - 1) \o row
       IN  BAdd(part, BMulR(a, b, j + 1))

BMul(a, b) == IF a = <<>> \/ b = <<>> THEN <<>> ELSE BMulR(a, b, 1)

RECURSIVE BitsOf(_)
BitsOf(n) == IF n = 0 THEN 0 ELSE 1 + BitsOf(n \div 2)

BitLen(a) ==
  IF a = <<>> THEN 0 ELSE LIMB_BITS * (Len(a) - 1) + BitsOf(a[Len(a)])

\* a * 2^s
BShl(a, s) ==
  IF a = <<>> THEN <<>>
  ELSE Zeros(s \div LIMB_BITS) \o BMulSmall(a, 2 ^ (s % LIMB_BITS))

RECURSIVE BDivSmallR(_, _, _, _)
BDivSmallR(a, k, i, r) ==
  IF i = 0 THEN <<>>
  ELSE LET cur == r * BASE + a[i]
       IN  BDivSmallR(a, k, i - 1, cur % k) \o <<cur \div k>>

\* floor(a / 2^s)
BShr(a, s) ==
  LET drop == s \div LIMB_BITS
      rest == IF drop >= Len(a) THEN <<>> ELSE SubSeq(a, drop + 1, Len(a))
  IN  BNorm(BDivSmallR(rest, 2 ^ (s % LIMB_BITS), Len(rest), 0))

\* bit k (0 = least significant) of a
BitAt(a, k) == (Limb(a, k \div LIMB_BITS + 1) \div (2 ^ (k % LIMB_BITS))) % 2

\* TRUE iff the k least significant bits of a are all zero
LowZero(a, k) ==
  /\ \A i \in 1..(k \div LIMB_BITS) : Limb(a, i) = 0
  /\ Limb(a, k \div LIMB_BITS + 1) % (2 ^ (k % LIMB_BITS)) = 0

\* a with its lowest bit set to bit, for an even a (used to shift a bit in)
WithLowBit(a, bit) ==
  IF bit = 0 THEN a
  ELSE IF a = <<>> THEN <<1>> ELSE [a EXCEPT ![1] = @ + 1]

\* One step of restoring division on the state st = [q, r] with r < d:
\* the next quotient bit of r / d
BDivStep(st, d) ==
  LET r2 == BAdd(st.r, st.r)
      ge == BCmp(r2, d) >= 0
  IN  [q |-> WithLowBit(BAdd(st.q, st.q), IF ge THEN 1 ELSE 0),
       r |-> IF ge THEN BSub(r2, d) ELSE r2]

\* k >= 1 steps of restoring division from the state st: the first half of
\* the steps, then the rest, which are all zero bits once the remainder is 0
RECURSIVE BDivState(_, _, _)
RECURSIVE BDivRest(_, _, _)
BDivState(st, d, k) ==
  IF k = 1 THEN BDivStep(st, d)
  ELSE BDivRest(BDivState(st, d, k \div 2), d, k - k \div 2)

BDivRest(st, d, k) ==
  IF st.r = <<>> THEN [q |-> BShl(st.q, k), r |-> <<>>]
  ELSE BDivState(st, d, k)

\* Restoring division: k more quotient bits of rem / d, with rem < d
BDivBits(rem, d, k, q) ==
  IF k = 0 THEN [q |-> q, r |-> rem]
  ELSE BDivState([q |-> q, r |-> rem], d, k)

\* res with bit k set if its square still fits under a
BSqrtStep(a, k, res) ==
  LET cand == BAdd(res, BShl(<<1>>, k))
  IN  IF BCmp(BMul(cand, cand), a) <= 0 THEN cand ELSE res

\* largest s with s*s <= a, trying the bits hi, hi-1, ..., lo on top of
\* res: the upper half of the bits, then the rest unless res is the exact root
RECURSIVE BSqrtBits(_, _, _, _)
RECURSIVE BSqrtRest(_, _, _, _)
BSqrtBits(a, hi, lo, res) ==
  IF hi = lo THEN BSqrtStep(a, hi, res)
  ELSE BSqrtRest(a, (hi + lo) \div 2, lo,
                 BSqrtBits(a, hi, (hi + lo) \div 2 + 1, res))

BSqrtRest(a, hi, lo, res) ==
  IF BCmp(BMul(res, res), a) = 0 THEN res
  ELSE BSqrtBits(a, hi, lo, res)

BSqrt(a) == BSqrtBits(a, BitLen(a) \div 2, 0, <<>>)

(***************************************************************************)
(* Python float = IEEE-754 binary64.  A float is [s, m, e] with value      *)
(* s * m * 2^e, where m is zero or a 53-bit multi-limb natural.  The       *)
(* magnitudes that ranks produce stay far from overflow and from the       *)
(* subnormal range, so the exponent is unbounded here.                     *)
(***************************************************************************)
FZero == [s |-> 1, m |-> <<>>, e |-> 0]

\* a rounded significand q1 of 53 or 54 bits placed at exponent e
FPack(s, q1, e) ==
  IF BitLen(q1) > MANT_BITS
  THEN [s |-> s, m |-> BShr(q1, 1), e |-> e + 1]
  ELSE [s |-> s, m |-> q1, e |-> e]

\* ties to even: q goes up when the dropped bits exceed one half, or are
\* exactly one half (halfbit set, nothing below) and q is odd
FRoundUp(q, halfbit, below) ==
  IF halfbit = 1 /\ (below \/ BitAt(q, 0) = 1) THEN BAdd(q, <<1>>) ELSE q

\* FRound for a significand M of L bits
FRoundLen(s, M, e, sticky, L) ==
  IF L = 0 THEN FZero
  ELSE IF L <= MANT_BITS
  THEN [s |-> s, m |-> BShl(M, MANT_BITS - L), e |-> e - (MANT_BITS - L)]
  ELSE FPack(s,
             FRoundUp(BShr(M, L - MANT_BITS),
                      BitAt(M, L - MANT_BITS - 1),
                      (~LowZero(M, L - MANT_BITS - 1)) \/ sticky),
             e + (L - MANT_BITS))

\* The float nearest to s * M * 2^e (ties to even); sticky says that the
\* exact value has further nonzero bits below M (then M has > 54 bits).
FRound(s, M, e, sticky) == FRoundLen(s, M, e, sticky, BitLen(M))

Abs(n) == IF n < 0 THEN -n ELSE n

\* float(n) for a Python int n (exact below 2^53)
FFromInt(n) == FRound(IF n < 0 THEN -1 ELSE 1, BFromInt(Abs(n)), 0, FALSE)

FIsZero(x) == x.m = <<>>

FNeg(x) == IF FIsZero(x) THEN x ELSE [x EXCEPT !.s = -x.s]

\* comparison of magnitudes of two floats: -1, 0, 1
FCmpMag(x, y) ==
  IF FIsZero(x) THEN (IF FIsZero(y) THEN 0 ELSE -1)
  ELSE IF FIsZero(y) THEN 1
  ELSE IF x.e > y.e THEN 1
  ELSE IF x.e < y.e THEN -1
  ELSE BCmp(x.m, y.m)

\* comparison of two floats: -1, 0, 1 as x < y, x = y, x > y
FCmp(x, y) ==
  LET sx == IF FIsZero(x) THEN 0 ELSE x.s
      sy == IF FIsZero(y) THEN 0 ELSE y.s
  IN  IF sx # sy THEN (IF sx < sy THEN -1 ELSE 1)
      ELSE IF sx = 0 THEN 0
      ELSE sx * FCmpMag(x, y)

FLess(x, y) == FCmp(x, y) < 0

FLeq(x, y) == FCmp(x, y) <= 0

\* hi + lo for nonzero floats with hi.e >= lo.e, A being hi.m aligned to lo.e
FAddAligned(hi, lo, A) ==
  LET c == BCmp(A, lo.m)
  IN  IF hi.s = lo.s THEN FRound(hi.s, BAdd(A, lo.m), lo.e, FALSE)
      ELSE IF c = 0 THEN FZero
      ELSE FRound(IF c > 0 THEN hi.s ELSE lo.s,
                  IF c > 0 THEN BSub(A, lo.m) ELSE BSub(lo.m, A),
                  lo.e, FALSE)

\* hi + lo for nonzero floats with hi.e >= lo.e
FAddOrdered(hi, lo) ==
  IF hi.e - lo.e > 64 THEN hi
  ELSE FAddAligned(hi, lo, BShl(hi.m, hi.e - lo.e))

\* x + y, rounded
FAdd(x, y) ==
  IF FIsZero(x) THEN y
  ELSE IF FIsZero(y) THEN x
  ELSE IF x.e >= y.e THEN FAddOrdered(x, y)
  ELSE FAddOrdered(y, x)

FSub(x, y) == FAdd(x, FNeg(y))

\* x * y, rounded
FMul(x, y) ==
  IF FIsZero(x) \/ FIsZero(y) THEN FZero
  ELSE FRound(x.s * y.s, BMul(x.m, y.m), x.e + y.e, FALSE)

DIV_BITS == 56

\* the float of sign s nearest to the quotient qr.q * 2^e, remainder qr.r
FDivQuot(s, qr, e) == FRound(s, qr.q, e, qr.r # <<>>)

\* x / y, rounded, for y # 0
FDiv(x, y) ==
  IF FIsZero(x) THEN FZero
  ELSE LET first == BCmp(x.m, y.m) >= 0
           r0 == IF first THEN BSub(x.m, y.m) ELSE x.m
           q0 == IF first THEN <<1>> ELSE <<>>
       IN  FDivQuot(x.s * y.s, BDivBits(r0, y.m, DIV_BITS, q0),
                    x.e - y.e - DIV_BITS)

\* int(x): truncation toward zero
FToInt(x) ==
  IF FIsZero(x) THEN 0
  ELSE IF x.e >= 0 THEN x.s * BToInt(BShl(x.m, x.e))
  ELSE x.s * BToInt(BShr(x.m, -x.e))

SQRT_BITS == 112

\* the float nearest to sqrt(N / D), r being the integer square root of
\* A = floor(num / D); exact1 says that D divides num
FSqrtRoot(A, r, k, exact1) == FRound(1, r, -k, ~(exact1 /\ BMul(r, r) = A))

\* the same from A = floor(num / D)
FSqrtQuot(num, D, A, k) == FSqrtRoot(A, BSqrt(A), k, BMulSmall(A, D) = num)

\* the same from num = N * 4^k
FSqrtScaled(num, D, k) ==
  FSqrtQuot(num, D, BNorm(BDivSmallR(num, D, Len(num), 0)), k)

\* The float nearest to sqrt(N / D) for integers N >= 0, 0 < D < BASE
FSqrtFrac(N, D) ==
  IF N = 0 THEN FZero
  ELSE LET k == (SQRT_BITS - BitsOf(N) + BitsOf(D)) \div 2
       IN  FSqrtScaled(BShl(BFromInt(N), 2 * k), D, k)

F1_5 == [s |-> 1, m |-> BShl(<<3>>, 51), e |-> -52]

F100 == FFromInt(100)

F300 == FFromInt(300)

F800 == FFromInt(800)

\* builtin sum() over floats: the int 0 start absorbs the first term, then
\* the terms are added left to right, each addition rounded
RECURSIVE SumFloatsR(_, _, _)
SumFloatsR(terms, i, acc) ==
  IF i > Len(terms) THEN acc
  ELSE LET nxt == FAdd(acc, terms[i])
       IN  IF nxt.s # 0 THEN SumFloatsR(terms, i + 1, nxt) ELSE nxt

SumFloats(terms) == SumFloatsR(terms, 1, FZero)

\* builtin sum() over ints (exact)
RECURSIVE SumInts(_)
SumInts(xs) == IF xs = <<>> THEN 0 ELSE Head(xs) + SumInts(Tail(xs))

Max(a, b) == IF a >= b THEN a ELSE b

(***************************************************************************)
(* analysis.py                                                             *)
(***************************************************************************)
RISING == "rising"      \* "上升": ranks get smaller, competition intensifies

FALLING == "falling"    \* "下降": ranks get larger, competition eases

STABLE == "stable"      \* "稳定"

LOW_RISK == "low_risk"        \* "低风险"

MEDIUM_RISK == "medium_risk"  \* "中风险"

HIGH_RISK == "high_risk"      \* "高风险"

VOL_LOW == "low"        \* "低"

VOL_MEDIUM == "medium"  \* "中"

VOL_HIGH == "high"      \* "高"

\* the fixed texts and the f-string templates of the trend description
INSUFFICIENT_DATA == "insufficient data, trend cannot be determined"

RANK_HELD == "rank held steady"

DESC_RISING == "ranks rose over the last n years, competition intensifies"

DESC_FALLING == "ranks fell over the last n years, competition eases"

DESC_STABLE == "ranks were stable over the last n years"

\* sum(values) / n for ints: true division of two ints
Mean(total, n) == FDiv(FFromInt(total), FFromInt(n))

\* the deviations x - x_mean over x = 0..n-1
DeviationsX(n, x_mean) == [i \in 1..n |-> FSub(FFromInt(i - 1), x_mean)]

\* numerator and denominator from the means and the deviations dx
RegressionSums(ranks, n, x_mean, y_mean, dx) ==
  [n |-> n, x_mean |-> x_mean, y_mean |-> y_mean,
   numerator |-> SumFloats([i \in 1..n |->
                    FMul(dx[i], FSub(FFromInt(ranks[i]), y_mean))]),
   denominator |-> SumFloats([i \in 1..n |-> FMul(dx[i], dx[i])])]

\* the regression sums from n, x_mean and y_mean
RegressionMeans(ranks, n, x_mean, y_mean) ==
  RegressionSums(ranks, n, x_mean, y_mean, DeviationsX(n, x_mean))

\* The regression sums of calculate_trend and predict_rank over
\* x = 0..n-1 and y = ranks, in the order the code computes them
Regression(ranks) ==
  RegressionMeans(ranks, Len(ranks),
                  Mean(SumInts([i \in 1..Len(ranks) |-> i - 1]), Len(ranks)),
                  Mean(SumInts(ranks), Len(ranks)))

\* "if len(data_list) < 2" with the guard off by one
TooShort_lt1(data_list) == Len(data_list) < 1

\* the guard "if len(data_list) < 2" of calculate_trend
TooShort(data_list) == Len(data_list) < 2

\* the decision rule with the two labels exchanged
ClassifySlope_swapped(slope, n) ==
  IF FLess(slope, FNeg(F100))
  THEN <<FALLING, [text |-> DESC_FALLING, n |-> n]>>
  ELSE IF FLess(F100, slope)
  THEN <<RISING, [text |-> DESC_RISING, n |-> n]>>
  ELSE <<STABLE, [text |-> DESC_STABLE, n |-> n]>>

\* the decision rule of calculate_trend on the fitted slope
ClassifySlope(slope, n) ==
  IF FLess(slope, FNeg(F100))
  THEN <<RISING, [text |-> DESC_RISING, n |-> n]>>
  ELSE IF FLess(F100, slope)
  THEN <<FALLING, [text |-> DESC_FALLING, n |-> n]>>
  ELSE <<STABLE, [text |-> DESC_STABLE, n |-> n]>>

\* the trend from the regression sums: "if denominator == 0", then the slope
TrendOf(reg) ==
  IF FIsZero(reg.denominator)
  THEN <<STABLE, [text |-> RANK_HELD, n |-> 0]>>
  ELSE ClassifySlope(FDiv(reg.numerator, reg.denominator), reg.n)

\* calculate_trend(data_list) -> (trend, description)
calculate_trend(data_list) ==
  IF TooShort(data_list)
  THEN <<STABLE, [text |-> INSUFFICIENT_DATA, n |-> 0]>>
  ELSE TrendOf(Regression([i \in 1..Len(data_list) |-> data_list[i].min_rank]))

\* the population deviation: the squared deviations divided by n
Stdev_population(ranks) ==
  LET n == Len(ranks)
      sy == SumInts(ranks)
      syy == SumInts([i \in 1..n |-> ranks[i] * ranks[i]])
  IN  FSqrtFrac(n * syy - sy * sy, n * n)

\* statistics.stdev over ints: the float nearest to the exact
\* sqrt(sum((y - mean)^2) / (n - 1)) = sqrt((n*sum(y^2) - sum(y)^2) / (n*(n-1)))
Stdev(ranks) ==
  LET n == Len(ranks)
      sy == SumInts(ranks)
      syy == SumInts([i \in 1..n |-> ranks[i] * ranks[i]])
  IN  FSqrtFrac(n * syy - sy * sy, n * (n - 1))

\* calculate_volatility(ranks) -> float
calculate_volatility(ranks) ==
  IF Len(ranks) < 2 THEN FZero ELSE Stdev(ranks)

\* the short-input result with the single observation ignored
ShortPrediction_zero(historical_ranks) ==
  [predicted_rank |-> 0, min |-> 0, max |-> 0]

\* what predict_rank returns for fewer than 2 ranks
ShortPrediction(historical_ranks) ==
  LET only == IF historical_ranks # <<>> THEN historical_ranks[1] ELSE 0
  IN  [predicted_rank |-> only, min |-> only, max |-> only]

\* the intercept with the operands of the subtraction exchanged
Intercept_swapped(y_mean, slope, x_mean) == FSub(FMul(slope, x_mean), y_mean)

\* intercept = y_mean - slope * x_mean
Intercept(y_mean, slope, x_mean) == FSub(y_mean, FMul(slope, x_mean))

\* the line evaluated at the last observed index instead of the next one
NextX_last(n) == n - 1

\* next_x = n
NextX(n) == n

\* the predicted rank without its floor at 1
PredictedRankOf_unfloored(predicted) == FToInt(predicted)

\* 'predicted_rank': max(1, int(predicted))
PredictedRankOf(predicted) == Max(1, FToInt(predicted))

\* the returned dict: min and max are int(centre -+ confidence_interval),
\* min floored at 1
PredictionAround(predicted_rank, centre, confidence_interval) ==
  [predicted_rank |-> predicted_rank,
   min |-> Max(1, FToInt(FSub(centre, confidence_interval))),
   max |-> FToInt(FAdd(centre, confidence_interval))]

\* "if denominator == 0": the band around avg_rank = int(y_mean)
FlatPrediction(avg_rank, confidence_interval) ==
  PredictionAround(avg_rank, FFromInt(avg_rank), confidence_interval)

\* the band around predicted = slope * next_x + intercept
LinePrediction(predicted, confidence_interval) ==
  PredictionAround(PredictedRankOf(predicted), predicted, confidence_interval)

\* predicted = slope * next_x + intercept
LineAt(slope, intercept, next_x) ==
  FAdd(FMul(slope, FFromInt(next_x)), intercept)

\* predict_rank from the regression sums and 1.5 * std_dev
PredictFrom(reg, slope, confidence_interval) ==
  IF FIsZero(reg.denominator)
  THEN FlatPrediction(FToInt(reg.y_mean), confidence_interval)
  ELSE LinePrediction(LineAt(slope,
                             Intercept(reg.y_mean, slope, reg.x_mean),
                             NextX(reg.n)),
                      confidence_interval)

\* numerator / denominator
Slope(reg) == FDiv(reg.numerator, reg.denominator)

\* the regression branch of predict_rank
PredictFromRegression(reg, confidence_interval) ==
  PredictFrom(reg, Slope(reg), confidence_interval)

\* predict_rank(historical_ranks) -> {predicted_rank, min, max}
predict_rank(historical_ranks) ==
  IF Len(historical_ranks) < 2
  THEN ShortPrediction(historical_ranks)
  ELSE PredictFromRegression(Regression(historical_ranks),
                             FMul(F1_5, calculate_volatility(historical_ranks)))

\* predicted_rank - 1.5 * volatility and predicted_rank + 1.5 * volatility
RiskWindow(predicted_rank, half_width) ==
  [predicted_min |-> FSub(predicted_rank, half_width),
   predicted_max |-> FAdd(predicted_rank, half_width)]

\* the band rule with the lower boundary counted as low risk
RiskBand_leq(student_rank, window) ==
  IF FLeq(student_rank, window.predicted_min) THEN LOW_RISK
  ELSE IF FLeq(student_rank, window.predicted_max) THEN MEDIUM_RISK
  ELSE HIGH_RISK

\* student_rank < predicted_min: low; <= predicted_max: medium; else high
RiskBand(student_rank, window) ==
  IF FLess(student_rank, window.predicted_min) THEN LOW_RISK
  ELSE IF FLeq(student_rank, window.predicted_max) THEN MEDIUM_RISK
  ELSE HIGH_RISK

\* get_risk_level(student_rank, predicted_rank, volatility)
get_risk_level(student_rank, predicted_rank, volatility) ==
  RiskBand(FFromInt(student_rank),
           RiskWindow(FFromInt(predicted_rank), FMul(F1_5, volatility)))

\* get_volatility_level with the thresholds compared by <=
get_volatility_level_leq(volatility) ==
  IF FLeq(volatility, F300) THEN VOL_LOW
  ELSE IF FLeq(volatility, F800) THEN VOL_MEDIUM
  ELSE VOL_HIGH

\* get_volatility_level(volatility)
get_volatility_level(volatility) ==
  IF FLess(volatility, F300) THEN VOL_LOW
  ELSE IF FLess(volatility, F800) THEN VOL_MEDIUM
  ELSE VOL_HIGH

(***************************************************************************)
(* The admissions table and get_historical_data                            *)
(***************************************************************************)
\* a nullable integer column holds NULL or <<value>>
NULL == <<>>

NotNull(v) == <<v>>

Key(row) == <<row.school, row.major, row.province, row.exam_type>>

\* ORDER BY year ASC over a set of rows with distinct years
RECURSIVE OrderByYear(_)
OrderByYear(rows) ==
  IF rows = {} THEN <<>>
  ELSE LET first == CHOOSE r \in rows : \A o \in rows : r.year <= o.year
       IN  <<first>> \o OrderByYear(rows \ {first})

\* the query without its conditions on province and exam_type
get_historical_data_any_province(table, school, major, province, exam_type) ==
  LET rows == OrderByYear({r \in table :
                  /\ r.school = school
                  /\ r.major = major
                  /\ r.min_rank # NULL})
  IN  [i \in 1..Len(rows) |->
         [year |-> rows[i].year, min_score |-> rows[i].min_score,
          min_rank |-> rows[i].min_rank[1]]]

\* get_historical_data(school, major, province, exam_type) on a table
get_historical_data(table, school, major, province, exam_type) ==
  LET rows == OrderByYear({r \in table :
                  /\ Key(r) = <<school, major, province, exam_type>>
                  /\ r.min_rank # NULL})
  IN  [i \in 1..Len(rows) |->
         [year |-> rows[i].year, min_score |-> rows[i].min_score,
          min_rank |-> rows[i].min_rank[1]]]

(***************************************************************************)
(* app.py: GET /api/analysis/<school>/<major>                              *)
(***************************************************************************)
None == "None"

\* an optional int is NoInt (Python None) or <<value>>
NoInt == <<>>

SomeInt(v) == <<v>>

\* the error text of the 404 answer
NO_HISTORICAL_DATA == "no historical data for this school and major"

\* "if student_rank:" is false for an absent parameter and for 0
RiskAssessment(student_rank, predicted_rank, volatility_value) ==
  IF student_rank # NoInt /\ student_rank[1] # 0
  THEN get_risk_level(student_rank[1], predicted_rank, volatility_value)
  ELSE None

\* the 200 answer of get_school_analysis
AnalysisResponse(school, major, historical_data, trend, prediction, volatility_value, student_rank) ==
  [status |-> 200, school |-> school, major |-> major,
   historical_data |-> historical_data,
   trend |-> trend[1], trend_description |-> trend[2],
   predicted_rank |-> prediction.predicted_rank,
   predicted_range |-> [min |-> prediction.min, max |-> prediction.max],
   volatility |-> get_volatility_level(volatility_value),
   volatility_value |-> FToInt(volatility_value),
   risk_assessment |-> RiskAssessment(student_rank, prediction.predicted_rank,
                                      volatility_value)]

\* the analysis of a non-empty history, ranks being its min_rank column
AnalysisOf(school, major, historical_data, ranks, student_rank) ==
  AnalysisResponse(school, major, historical_data,
                   calculate_trend(historical_data), predict_rank(ranks),
                   calculate_volatility(ranks), student_rank)

\* the answer for the rows get_historical_data returned
AnalysisOfHistory(school, major, historical_data, student_rank) ==
  IF historical_data = <<>>
  THEN [status |-> 404, error |-> NO_HISTORICAL_DATA,
        school |-> school, major |-> major]
  ELSE AnalysisOf(school, major, historical_data,
                  [i \in 1..Len(historical_data) |-> historical_data[i].min_rank],
                  student_rank)

\* get_school_analysis(school, major) with the query parameters of the
\* request; student_rank is NoInt when the parameter is absent or not an int
get_school_analysis(table, school, major, province, exam_type, student_rank) ==
  AnalysisOfHistory(school, major,
                    get_historical_data(table, school, major, province, exam_type),
                    student_rank)

(***************************************************************************)
(* Bounds of the model and the inputs drawn from them                      *)
(***************************************************************************)
MaxLen == 5

RankValues == {100, 200, 300}

ProgressionStarts == {1, 7}

ProgressionSteps == {100, 101, 150}

\* rank sequences that exercise a rounding or threshold case of their own
SpecialRanks ==
  { <<4000, 4500, 5200>>, <<186, 880, 67, 270, 991>>, <<558, 959, 456, 515>>,
    <<1000, 1>>, <<5, 5, 5, 5>>, <<1, 1, 2>> }

RECURSIVE SeqsOfLen(_, _)
SeqsOfLen(S, n) ==
  IF n = 0 THEN {<<>>}
  ELSE {Append(q, x) : q \in SeqsOfLen(S, n - 1), x \in S}

Reverse(q) == [i \in 1..Len(q) |-> q[Len(q) + 1 - i]]

Progressions ==
  LET up == {[i \in 1..n |-> a + (i - 1) * d] :
               n \in 2..MaxLen, a \in ProgressionStarts, d \in ProgressionSteps}
  IN  up \cup {Reverse(q) : q \in up}

RankSeqs ==
  UNION {SeqsOfLen(RankValues, n) : n \in 0..MaxLen}
    \cup Progressions \cup SpecialRanks

\* the years of the observations: consecutive, or with gaps
YearPatterns == {"consecutive", "gaps"}

YearAt(pattern, i) ==
  IF pattern = "consecutive" THEN 2018 + i ELSE 2005 + 3 * i - (i % 2)

Observations(ranks, pattern) ==
  [i \in 1..Len(ranks) |->
     [year |-> YearAt(pattern, i), min_score |-> 600, min_rank |-> ranks[i]]]

(***************************************************************************)
(* State: the admissions table, the call under way and what it returned    *)
(***************************************************************************)
VARIABLES admissions, call, ret, users, sessions, user_favorites, sqlite_sequence, now

vars == <<admissions, call, ret, users, sessions, user_favorites, sqlite_sequence, now>>

\* the tables and sessions of the web application, before any account exists
NoAccounts == users = {} /\ sessions = <<>> /\ user_favorites = {} /\ sqlite_sequence = 0 /\ now = 0

NoReturn == [kind |-> "pending"]

Returned(v) == [kind |-> "returned", value |-> v]

\* calculate_trend applied to any observation list
InitTrend ==
  /\ admissions = {}
  /\ call \in {[fn |-> "calculate_trend", data_list |-> Observations(q, p)] :
                 q \in RankSeqs, p \in YearPatterns}
  /\ ret = NoReturn
  /\ NoAccounts

CalculateTrend ==
  /\ call.fn = "calculate_trend"
  /\ ret = NoReturn
  /\ ret' = Returned(calculate_trend(call.data_list))
  /\ UNCHANGED <<admissions, call, users, sessions, user_favorites, sqlite_sequence, now>>

NextTrend == CalculateTrend

SpecTrend == InitTrend /\ [][NextTrend]_vars

\* predict_rank applied to any rank list
InitPredict ==
  /\ admissions = {}
  /\ call \in {[fn |-> "predict_rank", historical_ranks |-> q] : q \in RankSeqs}
  /\ ret = NoReturn
  /\ NoAccounts

PredictRank ==
  /\ call.fn = "predict_rank"
  /\ ret = NoReturn
  /\ ret' = Returned(predict_rank(call.historical_ranks))
  /\ UNCHANGED <<admissions, call, users, sessions, user_favorites, sqlite_sequence, now>>

NextPredict == PredictRank

SpecPredict == InitPredict /\ [][NextPredict]_vars

\* calculate_volatility applied to any rank list
InitVolatility ==
  /\ admissions = {}
  /\ call \in {[fn |-> "calculate_volatility", ranks |-> q] : q \in RankSeqs}
  /\ ret = NoReturn
  /\ NoAccounts

CalculateVolatility ==
  /\ call.fn = "calculate_volatility"
  /\ ret = NoReturn
  /\ ret' = Returned(calculate_volatility(call.ranks))
  /\ UNCHANGED <<admissions, call, users, sessions, user_favorites, sqlite_sequence, now>>

NextVolatility == CalculateVolatility

SpecVolatility == InitVolatility /\ [][NextVolatility]_vars

\* a decimal literal num/den as the float Python reads it
PyFloat(lit) == FDiv(FFromInt(lit.num), FFromInt(lit.den))

(***************************************************************************)
(* app.py: calculate_admission_probability                                 *)
(***************************************************************************)
\* the float literals 0.85, 0.95, 1.05, 1.15 and 1.3
RATIO_085 == PyFloat([num |-> 85, den |-> 100])

RATIO_095 == PyFloat([num |-> 95, den |-> 100])

RATIO_105 == PyFloat([num |-> 105, den |-> 100])

RATIO_115 == PyFloat([num |-> 115, den |-> 100])

RATIO_130 == PyFloat([num |-> 13, den |-> 10])

\* the bands with every breakpoint counted into the band below it
ProbabilityOfRatio_leq(ratio) ==
  IF FLeq(ratio, RATIO_085) THEN 95
  ELSE IF FLeq(ratio, RATIO_095) THEN 70
  ELSE IF FLeq(ratio, RATIO_105) THEN 50
  ELSE IF FLeq(ratio, RATIO_115) THEN 30
  ELSE IF FLeq(ratio, RATIO_130) THEN 15
  ELSE 5

\* the if / elif chain on ratio
ProbabilityOfRatio(ratio) ==
  IF FLess(ratio, RATIO_085) THEN 95
  ELSE IF FLess(ratio, RATIO_095) THEN 70
  ELSE IF FLess(ratio, RATIO_105) THEN 50
  ELSE IF FLess(ratio, RATIO_115) THEN 30
  ELSE IF FLess(ratio, RATIO_130) THEN 15
  ELSE 5

\* calculate_admission_probability(student_rank, avg_rank), avg_rank being
\* the int that get_avg_rank_data rounds the average to
calculate_admission_probability(student_rank, avg_rank) ==
  IF avg_rank = 0 THEN 0
  ELSE ProbabilityOfRatio(FDiv(FFromInt(student_rank), FFromInt(avg_rank)))

\* calculate_admission_probability applied to the student ranks
\* 0..MaxProbabilityRank and to average ranks that put every breakpoint on
\* an integer
MaxProbabilityRank == 135

AvgRankInputs == {0, 1, 7, 20, 100, -20}

InitProbability ==
  /\ admissions = {}
  /\ call \in {[fn |-> "calculate_admission_probability", student_rank |-> sr,
                avg_rank |-> ar] :
                 sr \in 0..MaxProbabilityRank, ar \in AvgRankInputs}
  /\ ret = NoReturn
  /\ NoAccounts

CalculateAdmissionProbability ==
  /\ call.fn = "calculate_admission_probability"
  /\ ret = NoReturn
  /\ ret' = Returned(calculate_admission_probability(call.student_rank,
                                                     call.avg_rank))
  /\ UNCHANGED <<admissions, call, users, sessions, user_favorites, sqlite_sequence, now>>

NextProbability == CalculateAdmissionProbability

SpecProbability == InitProbability /\ [][NextProbability]_vars

\* get_risk_level applied to any ranks and any volatility: the student
\* ranks are -BelowZeroRanks..MaxStudentRank
BelowZeroRanks == 3

MaxStudentRank == 12

PredictedRankInputs == {1, 5, 10}

VolatilityInputs ==
  { [num |-> 0, den |-> 1], [num |-> 1, den |-> 2], [num |-> 3, den |-> 4],
    [num |-> 1, den |-> 1], [num |-> 2, den |-> 1], [num |-> 4, den |-> 1] }

InitRisk ==
  /\ admissions = {}
  /\ call \in {[fn |-> "get_risk_level", student_rank |-> sr,
                predicted_rank |-> pr, volatility |-> v] :
                 sr \in (-BelowZeroRanks)..MaxStudentRank,
                 pr \in PredictedRankInputs, v \in VolatilityInputs}
  /\ ret = NoReturn
  /\ NoAccounts

GetRiskLevel ==
  /\ call.fn = "get_risk_level"
  /\ ret = NoReturn
  /\ ret' = Returned(get_risk_level(call.student_rank, call.predicted_rank,
                                    PyFloat(call.volatility)))
  /\ UNCHANGED <<admissions, call, users, sessions, user_favorites, sqlite_sequence, now>>

NextRisk == GetRiskLevel

SpecRisk == InitRisk /\ [][NextRisk]_vars

\* get_volatility_level applied to values around its thresholds, in tenths
VolWindow == 15

VolatilityTenths ==
  {-10, 0, 1, 50000}
    \cup (3000 - VolWindow)..(3000 + VolWindow)
    \cup (8000 - VolWindow)..(8000 + VolWindow)

InitVolatilityLevel ==
  /\ admissions = {}
  /\ call \in {[fn |-> "get_volatility_level",
                volatility |-> [num |-> t, den |-> 10]] : t \in VolatilityTenths}
  /\ ret = NoReturn
  /\ NoAccounts

GetVolatilityLevel ==
  /\ call.fn = "get_volatility_level"
  /\ ret = NoReturn
  /\ ret' = Returned(get_volatility_level(PyFloat(call.volatility)))
  /\ UNCHANGED <<admissions, call, users, sessions, user_favorites, sqlite_sequence, now>>

NextVolatilityLevel == GetVolatilityLevel

SpecVolatilityLevel == InitVolatilityLevel /\ [][NextVolatilityLevel]_vars

\* GET /api/analysis/<school>/<major> against a table that holds the
\* observations of one key, a row of that key without a rank, a key that has
\* only such a row, and another school
MaxAnalysisLen == 2

AnalysisRankSeqs == {q \in RankSeqs : Len(q) <= MaxAnalysisLen} \cup SpecialRanks

DEFAULT_PROVINCE == "Guangdong"   \* '广东'

DEFAULT_EXAM_TYPE == "physics"    \* '物理类'

Row(school, major, province, exam_type, year, min_score, min_rank) ==
  [school |-> school, major |-> major, province |-> province,
   exam_type |-> exam_type, year |-> year, min_score |-> min_score,
   min_rank |-> min_rank]

TableOf(ranks) ==
  {Row("S1", "M1", DEFAULT_PROVINCE, DEFAULT_EXAM_TYPE,
       YearAt("gaps", i), 600, NotNull(ranks[i])) : i \in 1..Len(ranks)}
    \cup {Row("S1", "M1", DEFAULT_PROVINCE, DEFAULT_EXAM_TYPE, 2004, 590, NULL),
          Row("S1", "M1", "Hunan", DEFAULT_EXAM_TYPE, 2020, 580, NULL),
          Row("S2", "M1", DEFAULT_PROVINCE, DEFAULT_EXAM_TYPE, 2012, 650, NotNull(50))}

StudentRankArgs == {NoInt} \cup {SomeInt(v) : v \in {0, -5, 150, 4600, 6200}}

ProvinceArgs == {None, "Hunan"}

Init ==
  /\ admissions \in {TableOf(q) : q \in AnalysisRankSeqs}
  /\ call \in {[fn |-> "get_school_analysis", school |-> "S1", major |-> "M1",
                province |-> pv, exam_type |-> None, student_rank |-> sr,
                logged_in |-> li] :
                 pv \in ProvinceArgs, sr \in StudentRankArgs, li \in BOOLEAN}
  /\ ret = NoReturn
  /\ NoAccounts

\* @login_required: without a user_id in the session the view is not run
login_required(logged_in, response) ==
  IF ~logged_in THEN [status |-> 302, location |-> "login"] ELSE response

\* request.args.get(name, default)
ArgOr(arg, default) == IF arg = None THEN default ELSE arg

GetSchoolAnalysis ==
  /\ call.fn = "get_school_analysis"
  /\ ret = NoReturn
  /\ ret' = Returned(login_required(call.logged_in,
                        get_school_analysis(admissions, call.school, call.major,
                          ArgOr(call.province, DEFAULT_PROVINCE),
                          ArgOr(call.exam_type, DEFAULT_EXAM_TYPE),
                          call.student_rank)))
  /\ UNCHANGED <<admissions, call, users, sessions, user_favorites, sqlite_sequence, now>>

Next == GetSchoolAnalysis

Spec == Init /\ [][Next]_vars

(***************************************************************************)
(* import_data.py: CSV cells, validate_row, read_csv_file and              *)
(* import_to_database.  A cell is a piece of text: words keep their text   *)
(* and whether blanks surround it, numerals keep their value in tenths and *)
(* whether they are written with a decimal point.                          *)
(***************************************************************************)
Word(text, padded) == [kind |-> "word", text |-> text, padded |-> padded, tenths |-> 0]

\* an integer numeral such as "2023"
IntText(n) == [kind |-> "int", text |-> "", padded |-> FALSE, tenths |-> 10 * n]

\* a numeral with a decimal point such as "3500.0" or "-0.5"
DecimalText(tenths) == [kind |-> "decimal", text |-> "", padded |-> FALSE, tenths |-> tenths]

BLANK_CELL == [kind |-> "blank", text |-> "", padded |-> FALSE, tenths |-> 0]

\* str.strip()
Strip(cell) == [cell EXCEPT !.padded = FALSE]

\* int(text): only an integer numeral converts, anything else is a ValueError
PyInt(cell) == IF cell.kind = "int" THEN SomeInt(cell.tenths \div 10) ELSE NoInt

\* float(text), in tenths: a numeral with or without a point converts
PyFloatOfText(cell) ==
  IF cell.kind \in {"int", "decimal"} THEN SomeInt(cell.tenths) ELSE NoInt

\* int(x) of a float x given in tenths: truncation toward zero
TruncTenths(tenths) ==
  IF tenths >= 0 THEN tenths \div 10 ELSE -((-tenths) \div 10)

\* int(float(text))
PyIntOfFloat(cell) ==
  IF PyFloatOfText(cell) = NoInt THEN NoInt
  ELSE SomeInt(TruncTenths(PyFloatOfText(cell)[1]))

required_fields ==
  {"province", "exam_type", "year", "school", "major", "min_score", "min_rank"}

\* "not row[field] or str(row[field]).strip() == ''"
Missing(cell) == cell.kind = "blank"

\* "if rank < 0: return False"
RankAccepted(rank) == ~(rank < 0)

\* validate_row(row, line_num)[0]
validate_row(row) ==
  /\ \A field \in required_fields : ~Missing(row[field])
  /\ PyInt(row.year) # NoInt
  /\ ~(PyInt(row.year)[1] < 2000 \/ PyInt(row.year)[1] > 2030)
  /\ PyFloatOfText(row.min_score) # NoInt
  /\ ~(PyFloatOfText(row.min_score)[1] < 0 \/ PyFloatOfText(row.min_score)[1] > 7500)
  /\ PyIntOfFloat(row.min_rank) # NoInt
  /\ RankAccepted(PyIntOfFloat(row.min_rank)[1])

\* read_csv_file: every cell stripped, the rows validate_row rejects left out
read_csv_file(csv) ==
  SelectSeq([i \in 1..Len(csv) |-> [f \in required_fields |-> Strip(csv[i][f])]],
            validate_row)

\* the admissions rows with the key of the import's SELECT
Existing(table, province, exam_type, year, school, major) ==
  {r \in table : /\ r.province = province
                 /\ r.exam_type = exam_type
                 /\ r.year = year
                 /\ r.school = school
                 /\ r.major = major}

\* INTEGER PRIMARY KEY AUTOINCREMENT: one more than the largest id so far
NextId(table) ==
  IF table = {} THEN 1
  ELSE 1 + (CHOOSE n \in {r.id : r \in table} : \A r \in table : r.id <= n)

\* the text a stripped word cell stores in a TEXT column
TextOf(cell) == <<cell.text, cell.padded>>

\* INSERT INTO admissions (...) VALUES (...)
Inserted(table, row) ==
  table \cup {[id |-> NextId(table),
               province |-> TextOf(Strip(row.province)),
               exam_type |-> TextOf(Strip(row.exam_type)),
               year |-> PyInt(row.year)[1],
               school |-> TextOf(Strip(row.school)),
               major |-> TextOf(Strip(row.major)),
               min_score |-> PyIntOfFloat(row.min_score)[1],
               min_rank |-> NotNull(PyIntOfFloat(row.min_rank)[1])]}

\* a conversion of the row raises: the row counts as failed
Fails(row) ==
  \/ PyInt(row.year) = NoInt
  \/ PyIntOfFloat(row.min_score) = NoInt
  \/ PyIntOfFloat(row.min_rank) = NoInt

\* the loop body without the SELECT for an existing record
ImportRow_unchecked(st, row) ==
  IF Fails(row) THEN [st EXCEPT !.failed = @ + 1]
  ELSE [st EXCEPT !.table = Inserted(st.table, row), !.success = @ + 1]

\* the loop body of import_to_database on the state st = table and stats
ImportRow(st, row) ==
  IF Fails(row) THEN [st EXCEPT !.failed = @ + 1]
  ELSE IF Existing(st.table, TextOf(Strip(row.province)),
                   TextOf(Strip(row.exam_type)), PyInt(row.year)[1],
                   TextOf(Strip(row.school)), TextOf(Strip(row.major))) # {}
  THEN [st EXCEPT !.skipped = @ + 1]
  ELSE [st EXCEPT !.table = Inserted(st.table, row), !.success = @ + 1]

\* "for row in data_rows:" from row i on
RECURSIVE ImportRows(_, _, _)
ImportRows(st, data_rows, i) ==
  IF i > Len(data_rows) THEN st
  ELSE ImportRows(ImportRow(st, data_rows[i]), data_rows, i + 1)

\* import_to_database(data_rows) on a table: the table after the commit and
\* the returned stats
import_to_database(table, data_rows) ==
  ImportRows([table |-> table, success |-> 0, skipped |-> 0, failed |-> 0],
             data_rows, 1)

\* The CSV rows of the model: two spellings of one key with different
\* values, a rank of 0, and two rows validate_row rejects (a negative rank,
\* a year written with a decimal point)
CsvRow(school, year, min_score, min_rank) ==
  [province |-> Word("Guangdong", FALSE), exam_type |-> Word("physics", FALSE),
   year |-> year, school |-> school, major |-> Word("M1", FALSE),
   min_score |-> min_score, min_rank |-> min_rank]

CsvRows ==
  { CsvRow(Word("S1", TRUE), IntText(2023), IntText(600), DecimalText(35000)),
    CsvRow(Word("S1", FALSE), IntText(2023), DecimalText(6005), IntText(120)),
    CsvRow(Word("S1", FALSE), IntText(2024), IntText(600), IntText(0)),
    CsvRow(Word("S1", FALSE), IntText(2024), IntText(600), IntText(-1)),
    CsvRow(Word("S1", FALSE), DecimalText(20240), IntText(600), IntText(50)) }

MaxCsvRows == 2

CsvFiles == UNION {SeqsOfLen(CsvRows, n) : n \in 0..MaxCsvRows}

\* the tables an import starts from: empty, or one record of the first key
StoredRow ==
  [id |-> 1, province |-> <<"Guangdong", FALSE>>, exam_type |-> <<"physics", FALSE>>,
   year |-> 2023, school |-> <<"S1", FALSE>>, major |-> <<"M1", FALSE>>,
   min_score |-> 610, min_rank |-> NotNull(4000)]

InitImport ==
  /\ admissions \in {{}, {StoredRow}}
  /\ call = [fn |-> "import_data.main", csv |-> <<>>]
  /\ ret = NoReturn
  /\ NoAccounts

\* python import_data.py <csv_file>: read_csv_file, then import_to_database
ImportCsv ==
  \E csv \in CsvFiles :
    LET data_rows == read_csv_file(csv)
        done == import_to_database(admissions, data_rows)
    IN  /\ call' = [fn |-> "import_data.main", csv |-> csv]
        /\ admissions' = done.table
        /\ ret' = Returned([stats |-> [success |-> done.success,
                                       skipped |-> done.skipped,
                                       failed |-> done.failed],
                            data_rows |-> data_rows])
        /\ UNCHANGED <<users, sessions, user_favorites, sqlite_sequence, now>>

NextImport == ImportCsv

SpecImport == InitImport /\ [][NextImport]_vars

(***************************************************************************)
(* app.py: the users table, the sessions of the clients and the            *)
(* administration views.  A session is the signed cookie of one client: it *)
(* holds what login() stored in it until logout() clears it.               *)
(* sqlite_sequence is the AUTOINCREMENT counter of user_favorites and now   *)
(* the CURRENT_TIMESTAMP of the database, in seconds.                      *)
(***************************************************************************)
MaxUsers == 3

MaxClients == 2

Clients == 1..MaxClients

\* users.username is UNIQUE: the account with id i is registered as USERNAMES[i]
USERNAMES == <<"admin", "bob", "carol", "dave", "erin">>

Passwords == {"secret", "guess"}

\* werkzeug.security: a hash matches exactly the password it was made from
generate_password_hash(password) == [hashed |-> password]

check_password_hash(pwhash, password) == pwhash.hashed = password

UserRow(id, role) == [id |-> id, username |-> USERNAMES[id], password_hash |-> generate_password_hash("secret"), role |-> role]

\* a users table with accounts 1..n, at least one of them an admin
UserTables ==
  {t \in UNION {{{UserRow(i, roles[i]) : i \in 1..n} : roles \in [1..n -> {"admin", "user"}]} : n \in 1..MaxUsers} :
     \E u \in t : u.role = "admin"}

EmptySession == [user_id |-> NoInt, username |-> <<>>, role |-> <<>>]

\* session['user_id'], session['username'], session['role'] = user[0], user[1], user[3]
SessionOf(user) == [user_id |-> SomeInt(user.id), username |-> <<user.username>>, role |-> <<user.role>>]

Redirect(location, flash) == [status |-> 302, location |-> location, flash |-> flash]

\* @admin_required: the role is read from the session, not from the users table
admin_required(session, table, outcome) ==
  IF session.user_id = NoInt THEN [users |-> table, response |-> Redirect("login", "")]
  ELSE IF session.role # <<"admin">> THEN [users |-> table, response |-> Redirect("recommend_page", "NO_ADMIN_RIGHTS")]
  ELSE outcome

\* login(): POST with a username and a password
login(table, session, username, password) ==
  LET found == {u \in table : u.username = username}
  IN  IF found # {} /\ (\A u \in found : check_password_hash(u.password_hash, password))
      THEN [session |-> SessionOf(CHOOSE u \in found : TRUE), response |-> Redirect("recommend_page", "")]
      ELSE [session |-> session, response |-> [status |-> 200, location |-> "login.html", flash |-> "BAD_CREDENTIALS"]]

\* logout(): session.clear()
logout(session) == [session |-> EmptySession, response |-> Redirect("login", "")]

delete_user(table, session, user_id) ==
  LET user == {u \in table : u.id = user_id}
  IN  IF SomeInt(user_id) = session.user_id THEN [users |-> table, response |-> Redirect("admin_dashboard", "CANNOT_DELETE_SELF")]
      ELSE IF user = {} THEN [users |-> table, response |-> Redirect("admin_dashboard", "NO_SUCH_USER")]
      ELSE IF \A u \in user : u.role = "admin" THEN [users |-> table, response |-> Redirect("admin_dashboard", "CANNOT_DELETE_ADMIN")]
      ELSE [users |-> table \ user, response |-> Redirect("admin_dashboard", "USER_DELETED")]

\* UPDATE users SET role = ? WHERE id = ?
SetRole(table, user_id, new_role) == {IF u.id = user_id THEN [u EXCEPT !.role = new_role] ELSE u : u \in table}

toggle_admin(table, session, user_id, action) ==
  IF SomeInt(user_id) = session.user_id THEN [users |-> table, response |-> Redirect("admin_dashboard", "CANNOT_CHANGE_OWN_ROLE")]
  ELSE IF action \notin {"promote", "demote"} THEN [users |-> table, response |-> Redirect("admin_dashboard", "INVALID_ACTION")]
  ELSE IF \A u \in table : u.id # user_id THEN [users |-> table, response |-> Redirect("admin_dashboard", "NO_SUCH_USER")]
  ELSE [users |-> SetRole(table, user_id, IF action = "promote" THEN "admin" ELSE "user"),
        response |-> Redirect("admin_dashboard", IF action = "promote" THEN "PROMOTED" ELSE "DEMOTED")]

InitAdmin ==
  /\ admissions = {}
  /\ users \in UserTables
  /\ sessions = [c \in Clients |-> EmptySession]
  /\ user_favorites = {}
  /\ sqlite_sequence = 0
  /\ now = 0
  /\ call = [fn |-> "init_database"]
  /\ ret = NoReturn

Login ==
  \E c \in Clients, username \in {USERNAMES[i] : i \in 1..MaxUsers}, password \in Passwords :
    /\ call' = [fn |-> "login", client |-> c, username |-> username, password |-> password]
    /\ sessions' = [sessions EXCEPT ![c] = login(users, sessions[c], username, password).session]
    /\ ret' = Returned(login(users, sessions[c], username, password).response)
    /\ UNCHANGED <<admissions, users, user_favorites, sqlite_sequence, now>>

Logout ==
  \E c \in Clients :
    /\ call' = [fn |-> "logout", client |-> c]
    /\ sessions' = [sessions EXCEPT ![c] = logout(sessions[c]).session]
    /\ ret' = Returned(logout(sessions[c]).response)
    /\ UNCHANGED <<admissions, users, user_favorites, sqlite_sequence, now>>

DeleteUser ==
  \E c \in Clients, user_id \in 1..MaxUsers :
    /\ call' = [fn |-> "delete_user", client |-> c, user_id |-> user_id]
    /\ users' = admin_required(sessions[c], users, delete_user(users, sessions[c], user_id)).users
    /\ ret' = Returned(admin_required(sessions[c], users, delete_user(users, sessions[c], user_id)).response)
    /\ UNCHANGED <<admissions, sessions, user_favorites, sqlite_sequence, now>>

ToggleAdmin ==
  \E c \in Clients, user_id \in 1..MaxUsers, action \in {"promote", "demote", "revoke"} :
    /\ call' = [fn |-> "toggle_admin", client |-> c, user_id |-> user_id, action |-> action]
    /\ users' = admin_required(sessions[c], users, toggle_admin(users, sessions[c], user_id, action)).users
    /\ ret' = Returned(admin_required(sessions[c], users, toggle_admin(users, sessions[c], user_id, action)).response)
    /\ UNCHANGED <<admissions, sessions, user_favorites, sqlite_sequence, now>>

NextAdmin == Login \/ Logout \/ DeleteUser \/ ToggleAdmin

SpecAdmin == InitAdmin /\ [][NextAdmin]_vars

(***************************************************************************)
(* app.py: the favorites API (manage_favorites, reorder_favorites,         *)
(* update_favorite) on the user_favorites table.                           *)
(***************************************************************************)
MaxFavId == 2

MaxClock == 0

\* ['冲', '稳', '保']
CATEGORIES == {"chong", "wen", "bao"}

\* '稳'
DEFAULT_CATEGORY == "wen"

FavoriteRow(id, user_id, school, major, category, sort_order, note, created_at) == [id |-> id, user_id |-> user_id, school |-> school, major |-> major, category |-> category, sort_order |-> sort_order, note |-> note, created_at |-> created_at]

\* WHERE user_id = ?
Own(table, user_id) == {f \in table : f.user_id = user_id}

Before_descending(f, g) == f.sort_order > g.sort_order \/ (f.sort_order = g.sort_order /\ f.created_at > g.created_at)

\* ORDER BY sort_order ASC, created_at DESC: f has to come before g
Before(f, g) == f.sort_order < g.sort_order \/ (f.sort_order = g.sort_order /\ f.created_at > g.created_at)

\* the orders in which the database may return the rows; rows that agree on
\* both sort keys come in any order
OrderBy(rows) ==
  {l \in [1..Cardinality(rows) -> rows] :
     \A i, j \in 1..Cardinality(rows) : i < j => l[i] # l[j] /\ ~Before(l[j], l[i])}

FavoriteJson(f) == [id |-> f.id, school |-> f.school, major |-> f.major, category |-> f.category, sort_order |-> f.sort_order, note |-> f.note, created_at |-> f.created_at]

Json(status, body) == [status |-> status, body |-> body]

Unchanged(table, seq, response) == [user_favorites |-> table, sqlite_sequence |-> seq, response |-> response]

\* GET /api/favorites: the lists the view may answer with
manage_favorites_get(table, user_id) == {[i \in DOMAIN l |-> FavoriteJson(l[i])] : l \in OrderBy(Own(table, user_id))}

\* MAX(sort_order) over the rows of the user; NULL without rows
MaxSortOrder(rows) == IF rows = {} THEN NULL ELSE NotNull(CHOOSE n \in {f.sort_order : f \in rows} : \A f \in rows : f.sort_order <= n)

COALESCE(value, default) == IF value = NULL THEN default ELSE value[1]

next_order_same(table, user_id) == COALESCE(MaxSortOrder(Own(table, user_id)), 0)

\* SELECT COALESCE(MAX(sort_order), 0) + 1 FROM user_favorites WHERE user_id = ?
next_order(table, user_id) == COALESCE(MaxSortOrder(Own(table, user_id)), 0) + 1

\* UNIQUE(user_id, school, major)
Duplicate(table, user_id, school, major) == \E f \in table : f.user_id = user_id /\ f.school = school /\ f.major = major

AddChecked(table, seq, clock, user_id, school, major, category) ==
  IF Duplicate(table, user_id, school, major) THEN Unchanged(table, seq, Json(400, [error |-> "ALREADY_EXISTS"]))
  ELSE [user_favorites |-> table \cup {FavoriteRow(seq + 1, user_id, school, major, category, next_order(table, user_id), "", clock)},
        sqlite_sequence |-> seq + 1,
        response |-> Json(200, [success |-> TRUE, id |-> seq + 1])]

\* POST /api/favorites
manage_favorites_post(table, seq, clock, user_id, school, major, category) ==
  IF Strip(school).text = "" \/ Strip(major).text = "" THEN Unchanged(table, seq, Json(400, [error |-> "SCHOOL_AND_MAJOR_REQUIRED"]))
  ELSE AddChecked(table, seq, clock, user_id, TextOf(Strip(school)), TextOf(Strip(major)),
                  IF category \in CATEGORIES THEN category ELSE DEFAULT_CATEGORY)

\* DELETE /api/favorites
manage_favorites_delete(table, seq, user_id, fav_id) ==
  IF fav_id = NoInt \/ fav_id = SomeInt(0) THEN Unchanged(table, seq, Json(400, [error |-> "ID_REQUIRED"]))
  ELSE IF \A f \in Own(table, user_id) : SomeInt(f.id) # fav_id THEN Unchanged(table, seq, Json(404, [error |-> "NOT_FOUND_OR_NOT_PERMITTED"]))
  ELSE [user_favorites |-> {f \in table : ~(SomeInt(f.id) = fav_id /\ f.user_id = user_id)},
        sqlite_sequence |-> seq,
        response |-> Json(200, [success |-> TRUE])]

\* UPDATE user_favorites SET sort_order = ? WHERE id = ? AND user_id = ?
SetSortOrder(table, sort_order, fav_id, user_id) == {IF f.id = fav_id /\ f.user_id = user_id THEN [f EXCEPT !.sort_order = sort_order] ELSE f : f \in table}

\* enumerate(ordered_ids) counts from 0
Index(i) == i - 1

RECURSIVE ReorderFrom(_, _, _, _)
\* for index, fav_id in enumerate(ordered_ids)
ReorderFrom(table, user_id, ordered_ids, i) ==
  IF i > Len(ordered_ids) THEN table
  ELSE ReorderFrom(SetSortOrder(table, Index(i), ordered_ids[i], user_id), user_id, ordered_ids, i + 1)

\* POST /api/favorites/reorder
reorder_favorites(table, seq, user_id, ordered_ids) ==
  IF ordered_ids = <<>> THEN Unchanged(table, seq, Json(400, [error |-> "ORDER_LIST_REQUIRED"]))
  ELSE [user_favorites |-> ReorderFrom(table, user_id, ordered_ids, 1),
        sqlite_sequence |-> seq,
        response |-> Json(200, [success |-> TRUE])]

\* the three UPDATE statements: SET category = ?, note = ? / SET category = ? / SET note = ?
SetFields(f, category, note) == [f EXCEPT !.category = IF category \in {None, ""} THEN @ ELSE category, !.note = IF note = None THEN @ ELSE note]

Targets_any_owner(table, fav_id, user_id) == {f \in table : f.id = fav_id}

\* WHERE id = ? AND user_id = ?
Targets(table, fav_id, user_id) == {f \in table : f.id = fav_id /\ f.user_id = user_id}

\* PUT /api/favorites/<int:fav_id>
update_favorite(table, seq, user_id, fav_id, category, note) ==
  IF category \in {None, ""} /\ note = None THEN Unchanged(table, seq, Json(400, [error |-> "NO_FIELD_TO_UPDATE"]))
  ELSE IF category \notin {None, ""} /\ category \notin CATEGORIES THEN Unchanged(table, seq, Json(400, [error |-> "INVALID_CATEGORY"]))
  ELSE IF Targets(table, fav_id, user_id) = {} THEN Unchanged(table, seq, Json(404, [error |-> "NOT_FOUND_OR_NOT_PERMITTED"]))
  ELSE [user_favorites |-> (table \ Targets(table, fav_id, user_id)) \cup {SetFields(f, category, note) : f \in Targets(table, fav_id, user_id)},
        sqlite_sequence |-> seq,
        response |-> Json(200, [success |-> TRUE])]

\* @login_required around a view that writes user_favorites
LoggedIn(session) == session.user_id # NoInt

UserIdOf(session) == IF LoggedIn(session) THEN session.user_id[1] ELSE 0

Served(session, table, seq, outcome) == IF LoggedIn(session) THEN outcome ELSE Unchanged(table, seq, login_required(FALSE, outcome.response))

\* request bodies of POST /api/favorites: school, major, category
AddInputs ==
  {<<Word("S1", FALSE), Word("M1", FALSE), "wen">>, <<Word("S1", TRUE), Word("M1", FALSE), "vip">>,
   <<Word("S2", FALSE), Word("M1", FALSE), "wen">>,
   <<Word("", TRUE), Word("M1", FALSE), "wen">>, <<Word("S1", FALSE), Word("", FALSE), "wen">>}

\* the number of rows an account can own: one for each school of AddInputs
MaxOwnRows == Cardinality({body[1].text : body \in AddInputs} \ {""})

\* the same with one school only, so that an account owns at most one row
OneSchoolAddInputs == {body \in AddInputs : body[1].text # "S2"}

\* request bodies of PUT /api/favorites/<fav_id>: category, note
UpdateInputs == {<<None, None>>, <<"bao", None>>, <<"", "">>, <<"bao", "memo">>, <<"vip", None>>}

\* ordered_ids of at most n different ids, and one list that repeats an id
OrderedIdsInputs(n) ==
  {l \in UNION {[1..k -> 1..MaxFavId] : k \in 0..n} : \A i, j \in DOMAIN l : i # j => l[i] # l[j]} \cup {<<1, 1>>}

\* the accounts that use the favorites API
FavoriteAccounts == {1, 2}

\* the clients that send the requests
FavoriteClients == Clients \cap FavoriteAccounts

\* client c is logged in as account c; the other clients are anonymous
FavoriteSessions == [c \in Clients |-> IF c \in FavoriteAccounts THEN SessionOf(UserRow(c, "user")) ELSE EmptySession]

InitFavorites ==
  /\ admissions = {}
  /\ users = {UserRow(i, "user") : i \in 1..MaxUsers}
  /\ sessions = FavoriteSessions
  /\ user_favorites = {}
  /\ sqlite_sequence = 0
  /\ now = 0
  /\ call = [fn |-> "init_database"]
  /\ ret = NoReturn

Apply(outcome) ==
  /\ user_favorites' = outcome.user_favorites
  /\ sqlite_sequence' = outcome.sqlite_sequence
  /\ ret' = Returned(outcome.response)

GetFavorites ==
  \E c \in FavoriteClients :
    \E body \in manage_favorites_get(user_favorites, UserIdOf(sessions[c])) :
      /\ call' = [fn |-> "manage_favorites", method |-> "GET", client |-> c]
      /\ ret' = Returned(login_required(LoggedIn(sessions[c]), Json(200, body)))
      /\ UNCHANGED <<admissions, users, sessions, user_favorites, sqlite_sequence, now>>

AddFavoriteOf(bodies) ==
  \E c \in FavoriteClients, body \in bodies, clock \in {now, now + 1} :
    /\ clock <= MaxClock
    /\ sqlite_sequence < MaxFavId
    /\ call' = [fn |-> "manage_favorites", method |-> "POST", client |-> c, school |-> body[1], major |-> body[2], category |-> body[3]]
    /\ now' = clock
    /\ Apply(Served(sessions[c], user_favorites, sqlite_sequence,
                    manage_favorites_post(user_favorites, sqlite_sequence, clock, UserIdOf(sessions[c]), body[1], body[2], body[3])))
    /\ UNCHANGED <<admissions, users, sessions>>

DeleteFavorite ==
  \E c \in FavoriteClients, fav_id \in {NoInt} \cup {SomeInt(i) : i \in 0..MaxFavId} :
    /\ call' = [fn |-> "manage_favorites", method |-> "DELETE", client |-> c, id |-> fav_id]
    /\ Apply(Served(sessions[c], user_favorites, sqlite_sequence,
                    manage_favorites_delete(user_favorites, sqlite_sequence, UserIdOf(sessions[c]), fav_id)))
    /\ UNCHANGED <<admissions, users, sessions, now>>

ReorderFavoritesOf(lists) ==
  \E c \in FavoriteClients, ordered_ids \in lists :
    /\ call' = [fn |-> "reorder_favorites", client |-> c, ordered_ids |-> ordered_ids]
    /\ Apply(Served(sessions[c], user_favorites, sqlite_sequence,
                    reorder_favorites(user_favorites, sqlite_sequence, UserIdOf(sessions[c]), ordered_ids)))
    /\ UNCHANGED <<admissions, users, sessions, now>>

UpdateFavorite ==
  \E c \in FavoriteClients, fav_id \in 1..MaxFavId, fields \in UpdateInputs :
    /\ call' = [fn |-> "update_favorite", client |-> c, fav_id |-> fav_id, category |-> fields[1], note |-> fields[2]]
    /\ Apply(Served(sessions[c], user_favorites, sqlite_sequence,
                    update_favorite(user_favorites, sqlite_sequence, UserIdOf(sessions[c]), fav_id, fields[1], fields[2])))
    /\ UNCHANGED <<admissions, users, sessions, now>>

AddFavorite == AddFavoriteOf(AddInputs)

ReorderFavorites == ReorderFavoritesOf(OrderedIdsInputs(MaxOwnRows))

\* the requests that decide the order of the favorites
NextFavorites == GetFavorites \/ AddFavorite \/ DeleteFavorite \/ ReorderFavorites

SpecFavorites == InitFavorites /\ [][NextFavorites]_vars

AddOneSchool == AddFavoriteOf(OneSchoolAddInputs)

ReorderOne == ReorderFavoritesOf(OrderedIdsInputs(1))

\* the requests that write user_favorites, issued by two accounts
NextOwners == AddOneSchool \/ DeleteFavorite \/ ReorderOne \/ UpdateFavorite

SpecOwners == InitFavorites /\ [][NextOwners]_vars

(***************************************************************************)
(* Exact arithmetic over the integers, used to state the properties        *)
(* independently of the floating-point computation.  For ranks y_1..y_n    *)
(* at the indices 0..n-1:                                                  *)
(*   slope      = 2 * SlopeNum / SlopeDen                                  *)
(*   line at n  = LineNum / LineDen                                        *)
(*   variance   = VarNum / (n * (n - 1))                                   *)
(***************************************************************************)
Weight(n, i) == 2 * (i - 1) - (n - 1)

SlopeNum(ranks) ==
  SumInts([i \in 1..Len(ranks) |-> Weight(Len(ranks), i) * ranks[i]])

SlopeDen(n) == SumInts([i \in 1..n |-> Weight(n, i) * Weight(n, i)])

ExactTrend(ranks) ==
  IF 2 * SlopeNum(ranks) < -100 * SlopeDen(Len(ranks)) THEN RISING
  ELSE IF 2 * SlopeNum(ranks) > 100 * SlopeDen(Len(ranks)) THEN FALLING
  ELSE STABLE

LineDen(n) == n * SlopeDen(n)

LineNum(ranks) ==
  LET n == Len(ranks)
  IN  SumInts(ranks) * SlopeDen(n) + SlopeNum(ranks) * (n + 1) * n

VarNum(ranks) ==
  LET n == Len(ranks)
      sy == SumInts(ranks)
  IN  n * SumInts([i \in 1..n |-> ranks[i] * ranks[i]]) - sy * sy

\* the common difference of a sequence of constant step, 0 if there is none
ConstantStep(ranks) ==
  IF /\ Len(ranks) >= 2
     /\ \A i \in 2..Len(ranks) : ranks[i] - ranks[i - 1] = ranks[2] - ranks[1]
  THEN ranks[2] - ranks[1]
  ELSE 0

RanksOf(data_list) == [i \in 1..Len(data_list) |-> data_list[i].min_rank]

TrendDone == call.fn = "calculate_trend" /\ ret.kind = "returned"

PredictDone == call.fn = "predict_rank" /\ ret.kind = "returned"

RiskDone == call.fn = "get_risk_level" /\ ret.kind = "returned"

VolatilityLevelDone == call.fn = "get_volatility_level" /\ ret.kind = "returned"

AnalysisDone ==
  call.fn = "get_school_analysis" /\ ret.kind = "returned" /\ ret.value.status = 200

\* C1: whatever ranks predict_rank is given (none and one included), the
\* returned range contains the returned prediction: min <= predicted_rank <= max
C1_PredictionWithinRange ==
  PredictDone =>
    /\ ret.value.min <= ret.value.predicted_rank
    /\ ret.value.predicted_rank <= ret.value.max

\* a steeply falling series: the fitted line is below 1 at the next index, the
\* prediction and the lower bound are floored at 1, the upper bound is above
C1_Witness ==
  /\ PredictDone
  /\ call.historical_ranks = <<1000, 1>>
  /\ ret.value.min = 1 /\ ret.value.predicted_rank = 1 /\ ret.value.max > 1

C3_Original ==
  TrendDone =>
    LET step == ConstantStep(RanksOf(call.data_list))
    IN  /\ step >= 101 => ret.value[1] = RISING
        /\ step <= -101 => ret.value[1] = FALLING

\* C3 (amended): ranks that grow by a constant step of at least 101 are
\* classified FALLING, ranks that shrink by such a step RISING
C3_ConstantStepTrend ==
  TrendDone =>
    LET step == ConstantStep(RanksOf(call.data_list))
    IN  /\ step >= 101 => ret.value[1] = FALLING
        /\ step <= -101 => ret.value[1] = RISING

C3_Witness ==
  /\ TrendDone
  /\ Len(call.data_list) >= 3
  /\ ConstantStep(RanksOf(call.data_list)) <= -101
  /\ ret.value[1] = RISING

\* C4: for two or more observations the trend is decided by the exact
\* least-squares slope of rank over the position index: below -100 RISING,
\* above +100 FALLING, otherwise (exactly -100 and +100 included) STABLE
C4_TrendBySlope ==
  (TrendDone /\ Len(call.data_list) >= 2) =>
    ret.value[1] = ExactTrend(RanksOf(call.data_list))

\* the product of a list of naturals, as a multi-limb natural
RECURSIVE BProd(_)
BProd(xs) ==
  IF xs = <<>> THEN <<1>> ELSE BMul(BFromInt(Head(xs)), BProd(Tail(xs)))

\* With h = 1.5 * sqrt(VarNum / (n * (n - 1))) the half-width of the range and
\* x = U / (2 * LineDen) a rational: x <= h, and h <= x, decided on squares
AtMostHalfWidth(U, ranks) ==
  LET n == Len(ranks)
  IN  \/ U <= 0
      \/ BCmp(BProd(<<U, U, n * (n - 1)>>),
              BProd(<<9, VarNum(ranks), LineDen(n), LineDen(n)>>)) <= 0

AtLeastHalfWidth(U, ranks) ==
  LET n == Len(ranks)
  IN  /\ U >= 0
      /\ BCmp(BProd(<<9, VarNum(ranks), LineDen(n), LineDen(n)>>),
              BProd(<<U, U, n * (n - 1)>>)) <= 0

\* k is an integer nearest to p, to p + h, to p - h (p the line at index n)
NearestToLine(k, ranks) ==
  LET d == 2 * k * LineDen(Len(ranks)) - 2 * LineNum(ranks)
  IN  Abs(d) <= LineDen(Len(ranks))

NearestToUpper(k, ranks) ==
  LET d == 2 * k * LineDen(Len(ranks)) - 2 * LineNum(ranks)
  IN  /\ AtMostHalfWidth(d - LineDen(Len(ranks)), ranks)
      /\ AtLeastHalfWidth(d + LineDen(Len(ranks)), ranks)

NearestToLower(k, ranks) ==
  LET d == 2 * LineNum(ranks) - 2 * k * LineDen(Len(ranks))
  IN  /\ AtMostHalfWidth(d - LineDen(Len(ranks)), ranks)
      /\ AtLeastHalfWidth(d + LineDen(Len(ranks)), ranks)

\* C5: for two or more ranks, with p the least-squares line at index n and
\* h = 1.5 * sample standard deviation, predict_rank returns
\* predicted_rank = max(1, round(p)), min = max(1, round(p - h)) and
\* max = round(p + h), round being rounding to a nearest integer
C5_RoundedPrediction ==
  (PredictDone /\ Len(call.historical_ranks) >= 2) =>
    LET ranks == call.historical_ranks
        v == ret.value
    IN  /\ IF v.predicted_rank > 1 THEN NearestToLine(v.predicted_rank, ranks)
           ELSE v.predicted_rank = 1 /\ 2 * LineNum(ranks) <= 3 * LineDen(Len(ranks))
        /\ IF v.min > 1 THEN NearestToLower(v.min, ranks)
           ELSE v.min = 1
                  /\ AtMostHalfWidth(2 * LineNum(ranks) - 3 * LineDen(Len(ranks)), ranks)
        /\ NearestToUpper(v.max, ranks)

\* C6: get_risk_level answers low risk when student_rank is below
\* predicted_rank - 1.5 * volatility, high risk when it is above
\* predicted_rank + 1.5 * volatility, and medium risk otherwise, the two
\* boundaries included; the window is not floored at 1
C6_RiskLevelBands ==
  RiskDone =>
    LET den == call.volatility.den
        mid == 2 * den * call.predicted_rank
        half == 3 * call.volatility.num
        sr == 2 * den * call.student_rank
    IN  ret.value = IF sr < mid - half THEN LOW_RISK
                    ELSE IF sr > mid + half THEN HIGH_RISK
                    ELSE MEDIUM_RISK

\* a student rank equal to a lower boundary that lies below 1: medium risk
C6_Witness ==
  /\ RiskDone
  /\ call.predicted_rank = 1 /\ call.volatility = [num |-> 2, den |-> 1]
  /\ call.student_rank = -2
  /\ ret.value = MEDIUM_RISK

\* C7: get_volatility_level answers LOW below 300, MEDIUM from 300 up to but
\* not including 800, HIGH from 800 on
C7_VolatilityLevelBands ==
  VolatilityLevelDone =>
    LET tenths == call.volatility.num
    IN  ret.value = IF tenths < 3000 THEN VOL_LOW
                    ELSE IF tenths < 8000 THEN VOL_MEDIUM
                    ELSE VOL_HIGH

\* the value 300 itself is MEDIUM
C7_Witness ==
  /\ VolatilityLevelDone
  /\ call.volatility = [num |-> 3000, den |-> 10]
  /\ ret.value = VOL_MEDIUM

IsConstant(ranks) == \A i \in 1..Len(ranks) : ranks[i] = ranks[1]

\* C8: on n >= 2 copies of one rank c, predict_rank returns
\* predicted_rank = min = max = c
C8_ConstantSeries ==
  (PredictDone /\ Len(call.historical_ranks) >= 2 /\ IsConstant(call.historical_ranks)) =>
    LET c == call.historical_ranks[1]
    IN  ret.value = [predicted_rank |-> c, min |-> c, max |-> c]

C8_Witness ==
  /\ PredictDone
  /\ Len(call.historical_ranks) >= 3
  /\ IsConstant(call.historical_ranks)
  /\ ret.value.predicted_rank = call.historical_ranks[1]

\* C9: predict_rank returns 0, 0, 0 for no ranks and r, r, r for the single
\* rank r
C9_ShortSeries ==
  (PredictDone /\ Len(call.historical_ranks) < 2) =>
    LET r == IF call.historical_ranks = <<>> THEN 0 ELSE call.historical_ranks[1]
    IN  ret.value = [predicted_rank |-> r, min |-> r, max |-> r]

C9_Witness ==
  /\ PredictDone
  /\ Len(call.historical_ranks) = 1
  /\ ret.value.predicted_rank = call.historical_ranks[1]

\* C10: for no or one observation calculate_trend returns STABLE with the
\* insufficient-data explanation
C10_ShortTrend ==
  (TrendDone /\ Len(call.data_list) < 2) =>
    /\ ret.value[1] = STABLE
    /\ ret.value[2].text = INSUFFICIENT_DATA

C10_Witness ==
  /\ TrendDone
  /\ Len(call.data_list) = 1
  /\ ret.value[1] = STABLE

VolatilityDone == call.fn = "calculate_volatility" /\ ret.kind = "returned"

\* the sign of M^2 * 2^e2 * D - N for a natural M, as -1, 0 or 1
SquareCmp(M, e2, N, D) ==
  BCmp(BShl(BMulSmall(BMul(M, M), D), Max(0, e2)),
       BShl(BFromInt(N), Max(0, -e2)))

\* v * v = N / D exactly
SquareIs(v, N, D) == SquareCmp(v.m, 2 * v.e, N, D) = 0

\* v is a float nearest to sqrt(N / D): N / D lies between the squares of
\* v - ulp/2 and v + ulp/2
NearestToRoot(v, N, D) ==
  IF N = 0 THEN FIsZero(v)
  ELSE /\ ~FIsZero(v)
       /\ v.s = 1
       /\ SquareCmp(BSub(BAdd(v.m, v.m), <<1>>), 2 * v.e - 2, N, D) <= 0
       /\ SquareCmp(BAdd(BAdd(v.m, v.m), <<1>>), 2 * v.e - 2, N, D) >= 0

\* C11 as stated: calculate_volatility returns 0 for fewer than 2 ranks and
\* otherwise a v >= 0 whose square is exactly the sum of squared deviations
\* from the mean divided by n - 1
C11_Original ==
  VolatilityDone =>
    IF Len(call.ranks) < 2 THEN FIsZero(ret.value)
    ELSE /\ (FIsZero(ret.value) \/ ret.value.s = 1)
         /\ SquareIs(ret.value, VarNum(call.ranks),
                     Len(call.ranks) * (Len(call.ranks) - 1))

\* C11: calculate_volatility returns 0 for fewer than 2 ranks and otherwise
\* the float v >= 0 nearest to the square root of the sum of squared
\* deviations from the mean divided by n - 1 (so v^2 is that quotient exactly
\* whenever its root is a float)
C11_SampleStdev ==
  VolatilityDone =>
    IF Len(call.ranks) < 2 THEN FIsZero(ret.value)
    ELSE NearestToRoot(ret.value, VarNum(call.ranks),
                       Len(call.ranks) * (Len(call.ranks) - 1))

\* two ranks whose sample variance 5000 has no rational root
C11_Witness ==
  /\ VolatilityDone
  /\ call.ranks = <<100, 200>>
  /\ ~FIsZero(ret.value)
  /\ ~SquareIs(ret.value, 5000, 1)

ProbabilityDone ==
  call.fn = "calculate_admission_probability" /\ ret.kind = "returned"

\* student_rank / avg_rank < p / q over the rationals, for avg_rank # 0
RatioBelow(student_rank, avg_rank, p, q) ==
  IF avg_rank > 0 THEN student_rank * q < p * avg_rank
  ELSE student_rank * q > p * avg_rank

\* the bands of the exact ratio student_rank / avg_rank
ExactProbability(student_rank, avg_rank) ==
  IF avg_rank = 0 THEN 0
  ELSE IF RatioBelow(student_rank, avg_rank, 85, 100) THEN 95
  ELSE IF RatioBelow(student_rank, avg_rank, 95, 100) THEN 70
  ELSE IF RatioBelow(student_rank, avg_rank, 105, 100) THEN 50
  ELSE IF RatioBelow(student_rank, avg_rank, 115, 100) THEN 30
  ELSE IF RatioBelow(student_rank, avg_rank, 13, 10) THEN 15
  ELSE 5

\* C12: calculate_admission_probability returns 0 for avg_rank = 0 and
\* otherwise the band of the ratio student_rank / avg_rank (95 below 0.85,
\* 70 below 0.95, 50 below 1.05, 30 below 1.15, 15 below 1.3, else 5), a
\* breakpoint belonging to the band after it; and for a positive avg_rank
\* the result for student_rank is never above the result for student_rank - 1
C12_AdmissionProbability ==
  ProbabilityDone =>
    /\ ret.value = ExactProbability(call.student_rank, call.avg_rank)
    /\ (call.avg_rank > 0 /\ call.student_rank > 0) =>
         ret.value <= calculate_admission_probability(call.student_rank - 1,
                                                      call.avg_rank)

\* the ratio 17 / 20 is the breakpoint 0.85 itself and gets the next band
C12_Witness ==
  /\ ProbabilityDone
  /\ call.student_rank = 17
  /\ call.avg_rank = 20
  /\ ret.value = 70

\* a get_school_analysis request of a logged-in user has been answered
AnalysisAnswered ==
  call.fn = "get_school_analysis" /\ ret.kind = "returned" /\ call.logged_in

\* C13: a get_school_analysis request that carries a zero or negative
\* student_rank is not answered with an analysis: get_risk_level is not
\* called on it and no 200 answer (with or without a risk tier) is produced
C13_NonPositiveRankRejected ==
  (AnalysisAnswered /\ call.student_rank # NoInt /\ call.student_rank[1] <= 0)
    => /\ ret.value.status # 200
       /\ "risk_assessment" \notin DOMAIN ret.value

\* the rows of the table that the request is about: those of its key
\* (with the defaults of the query parameters) that have a rank
RequestedRows ==
  {r \in admissions :
     /\ Key(r) = <<call.school, call.major,
                   ArgOr(call.province, DEFAULT_PROVINCE),
                   ArgOr(call.exam_type, DEFAULT_EXAM_TYPE)>>
     /\ r.min_rank # NULL}

\* hist lists exactly the rows of the set rows, in ascending year order
ListsInYearOrder(hist, rows) ==
  /\ Len(hist) = Cardinality(rows)
  /\ \A i \in 1..Len(hist) :
       \E r \in rows : /\ r.year = hist[i].year
                       /\ r.min_score = hist[i].min_score
                       /\ r.min_rank = NotNull(hist[i].min_rank)
  /\ \A i \in 1..(Len(hist) - 1) : hist[i].year < hist[i + 1].year

\* C14: without a row with a rank for the requested key get_school_analysis
\* answers 404 "no historical data" and no result of calculate_trend,
\* predict_rank, calculate_volatility or get_risk_level is in the answer;
\* otherwise the analytics are computed on the rows of that key only, those
\* with a rank, in ascending year order
C14_NoHistoricalData ==
  AnalysisAnswered =>
    IF RequestedRows = {}
    THEN /\ ret.value.status = 404
         /\ ret.value.error = NO_HISTORICAL_DATA
         /\ DOMAIN ret.value = {"status", "error", "school", "major"}
    ELSE /\ ret.value.status = 200
         /\ ListsInYearOrder(ret.value.historical_data, RequestedRows)
         /\ ret.value.trend = calculate_trend(ret.value.historical_data)[1]
         /\ ret.value.predicted_rank =
              predict_rank(RanksOf(ret.value.historical_data)).predicted_rank
         /\ ret.value.volatility_value =
              FToInt(calculate_volatility(RanksOf(ret.value.historical_data)))

\* a request for a province whose only row of the key has no rank, while
\* the same school and major have ranked rows in another province
C14_Witness ==
  /\ AnalysisAnswered
  /\ call.province = "Hunan"
  /\ \E r \in admissions : r.school = call.school /\ r.province = "Hunan"
  /\ \E r \in admissions : /\ r.school = call.school
                           /\ r.province = DEFAULT_PROVINCE
                           /\ r.min_rank # NULL
  /\ ret.value.status = 404

ImportDone == call.fn = "import_data.main" /\ ret.kind = "returned"

\* the key of an admissions record for the import
ImportKey(r) == <<r.province, r.exam_type, r.year, r.school, r.major>>

\* C15: after any number of import runs, one after another, on any CSV
\* rows (rows repeating a key within one file included), no two records of
\* the admissions table share (province, exam_type, year, school, major)
C15_UniquePerKey ==
  \A r1, r2 \in admissions : ImportKey(r1) = ImportKey(r2) => r1 = r2

\* a file whose two accepted rows spell the same key differently and carry
\* different ranks: into an empty table the first is inserted, the second
\* skipped
C15_Witness ==
  /\ ImportDone
  /\ Len(call.csv) = 2
  /\ call.csv[1].school # call.csv[2].school
  /\ Len(ret.value.data_rows) = 2
  /\ ret.value.data_rows[1].min_rank # ret.value.data_rows[2].min_rank
  /\ ret.value.stats.success = 1
  /\ ret.value.stats.skipped = 1
  /\ Cardinality(admissions) = 1

\* C16: every record that validate_row accepted and import_to_database
\* inserted has min_rank >= 1, and so has every observation that
\* get_historical_data returns for a key of the table
C16_PositiveRanks ==
  /\ \A r \in admissions : r.min_rank # NULL => r.min_rank[1] >= 1
  /\ \A r \in admissions :
       \A i \in 1..Len(get_historical_data(admissions, r.school, r.major,
                                           r.province, r.exam_type)) :
         get_historical_data(admissions, r.school, r.major,
                             r.province, r.exam_type)[i].min_rank >= 1



\* C17: as long as requests of login, logout, toggle_admin and delete_user are
\* served, from any clients in any order, the users table holds an account
\* whose role is admin
C17_AdminRemains == \E u \in users : u.role = "admin"

\* the account a favorites request is served for
Requester(request) == UserIdOf(sessions[request.client])

\* the rows of user_favorites that other accounts own are the same before and
\* after the request
OthersUntouched(request) ==
  /\ \A f \in user_favorites : f.user_id # Requester(request) => f \in user_favorites'
  /\ \A f \in user_favorites' : f.user_id # Requester(request) => f \in user_favorites

\* a DELETE whose id is a row of another account
DeleteNamesForeign(request) ==
  /\ request.fn = "manage_favorites"
  /\ request.method = "DELETE"
  /\ \E f \in user_favorites : SomeInt(f.id) = request.id /\ f.user_id # Requester(request)

\* a PUT whose fav_id is a row of another account
UpdateNamesForeign(request) ==
  /\ request.fn = "update_favorite"
  /\ \E f \in user_favorites : f.id = request.fav_id /\ f.user_id # Requester(request)

\* a PUT body with a field to update and, if it has a category, one of the three
UpdateBodyValid(request) ==
  /\ ~(request.category \in {None, ""} /\ request.note = None)
  /\ request.category \in {None, ""} \/ request.category \in {"chong", "wen", "bao"}

\* C18 as stated: a favorites request in the session of an account leaves the
\* rows of every other account unchanged, and every delete or update that
\* names a row of another account is answered with 404
C18_Original ==
  [][LoggedIn(sessions[call'.client]) =>
       /\ OthersUntouched(call')
       /\ DeleteNamesForeign(call') \/ UpdateNamesForeign(call') => ret'.value.status = 404]_vars

\* C18 amended: a favorites request in the session of an account leaves the
\* rows of every other account unchanged; a delete that names a row of another
\* account, and an update that names one with a body that passes the checks
\* of the fields, is answered with 404 (an update whose body fails them is
\* answered with 400 before the row is looked up)
C18_OthersUntouched ==
  [][LoggedIn(sessions[call'.client]) =>
       /\ OthersUntouched(call')
       /\ DeleteNamesForeign(call') => ret'.value.status = 404
       /\ UpdateNamesForeign(call') /\ UpdateBodyValid(call') => ret'.value.status = 404
       /\ UpdateNamesForeign(call') /\ ~UpdateBodyValid(call') => ret'.value.status = 400]_vars

\* an update with a valid body that names a row of another account has been
\* answered with 404 and the row is still there
C18_Witness ==
  /\ call.fn = "update_favorite"
  /\ LoggedIn(sessions[call.client])
  /\ call.category = "bao"
  /\ \E f \in user_favorites : f.id = call.fav_id /\ f.user_id # Requester(call) /\ f.category = "wen"
  /\ ret.value.status = 404

\* ordered_ids lists every favorite id of the account once and nothing else
PermutationOfOwn(ordered_ids, user_id) ==
  /\ Len(ordered_ids) = Cardinality(Own(user_favorites, user_id))
  /\ {ordered_ids[i] : i \in DOMAIN ordered_ids} = {f.id : f \in Own(user_favorites, user_id)}

\* the last request was a reorder_favorites that succeeded with such a list
ReorderedAll ==
  /\ call.fn = "reorder_favorites"
  /\ LoggedIn(sessions[call.client])
  /\ ret.value.status = 200
  /\ PermutationOfOwn(call.ordered_ids, Requester(call))

\* C19: when reorder_favorites has succeeded with ordered_ids a permutation of
\* all favorite ids of the session's account, the GET /api/favorites of that
\* account that follows answers with the favorites in the order of ordered_ids
C19_ReorderThenGet ==
  [][ReorderedAll /\ call'.fn = "manage_favorites" /\ call'.method = "GET"
       /\ Requester(call') = Requester(call) =>
         /\ ret'.value.status = 200
         /\ [i \in DOMAIN ret'.value.body |-> ret'.value.body[i].id] = call.ordered_ids]_vars

\* a reorder has put the two favorites of an account in the order opposite to
\* the one they were added in
C19_Witness ==
  /\ ReorderedAll
  /\ Len(call.ordered_ids) = 2
  /\ call.ordered_ids[1] > call.ordered_ids[2]

\* a POST /api/favorites in the session of an account
AddRequest(request) ==
  /\ request.fn = "manage_favorites"
  /\ request.method = "POST"
  /\ LoggedIn(sessions[request.client])

\* the account already has the (school, major) pair of the request, blanks
\* around the names aside
AlreadyHas(request) ==
  \E f \in Own(user_favorites, Requester(request)) :
    f.school = <<request.school.text, FALSE>> /\ f.major = <<request.major.text, FALSE>>

\* the row the request added: its sort_order is above that of every row the
\* account had, and every list GET /api/favorites may answer with ends with it
AddedLast(request, response) ==
  \E new \in user_favorites' \ user_favorites :
    /\ new.id = response.body.id
    /\ new.user_id = Requester(request)
    /\ \A f \in Own(user_favorites, Requester(request)) : f.sort_order < new.sort_order
    /\ \A l \in manage_favorites_get(user_favorites', Requester(request)) : l[Len(l)].id = new.id

\* C20: after any add, delete and reorder requests, a favorite that is added
\* gets a sort_order strictly greater than that of every favorite the account
\* already has and is listed last; adding a (school, major) pair the account
\* already has is answered with an error and changes no row
C20_AddedLast ==
  [][AddRequest(call') =>
       /\ ret'.value.status = 200 => AddedLast(call', ret'.value)
       /\ AlreadyHas(call') => ret'.value.status = 400 /\ user_favorites' = user_favorites]_vars

\* a favorite has been added after a reorder moved the one the account had to
\* sort_order 0: the account has two rows and the new one has sort_order 1
C20_Witness ==
  /\ AddRequest(call)
  /\ ret.value.status = 200
  /\ Cardinality(Own(user_favorites, Requester(call))) = 2
  /\ \E new \in user_favorites : new.id = ret.value.body.id /\ new.sort_order = 1


====
